---- MODULE Spec2Model ----
(***************************************************************************)
(* PiJuice-MQTT (src/pijuicemqtt.py): the main program, the connect        *)
(* callback mqtt_on_connect, the termination handler on_exit and the       *)
(* self-rearming publish cycle publish_pijuice, as one state machine.      *)
(*                                                                         *)
(* Threads.  The main thread runs lines 221-231: connect, the two          *)
(* signal.signal calls, the first publish_pijuice() call and then          *)
(* client.loop_forever(), inside which the connect callback runs.  on_exit *)
(* is a Python signal handler: it runs on the main thread, between two     *)
(* steps of whatever the main thread was doing, and the main thread does   *)
(* nothing else until the handler ends.  Every threading.Timer is a thread *)
(* of its own (Timer.run: wait(interval); if the finished event is not     *)
(* set, call the function; set finished).  Invocation k of publish_pijuice *)
(* creates Timer k+1, and Timer k runs invocation k; invocation 0 runs on  *)
(* the main thread.                                                        *)
(*                                                                         *)
(* Time is abstracted: a started Timer may fire at any later step, which   *)
(* covers every ratio of a cycle's duration to publish_period.             *)
(*                                                                         *)
(* Scope.  One termination signal is delivered per run, at any point after *)
(* its handler is installed and while the main thread is alive.  The loss  *)
(* of a connection is a step of loop_forever (the point where the client   *)
(* notices it).  client.publish is the hand-over of a message to the       *)
(* client; the streams service, status and ha keep, per topic, the         *)
(* messages in the order of these calls.                                   *)
(*                                                                         *)
(* Specifications.  Spec: the default configuration and the reference      *)
(* device; a lookup of the device yields its value or raises KeyError.     *)
(* SpecRaise: one connection, and a statement of a cycle may also raise an *)
(* exception of another type.  SpecDevice: every device and expire_after   *)
(* setting, in the runs without a termination signal.                      *)
(***************************************************************************)
EXTENDS Integers, Sequences, FiniteSets, TLC

\* Bounds of the model: Timers 1..MaxTimers exist, invocations 0..MaxTimers-1
\* run (the last Timer is never fired); at most MaxSessions broker sessions.
MaxTimers == 2
MaxSessions == 2

\* The ten lookups of one cycle, in evaluation order (lines 198-208).
NumLookups == 10

VARIABLES
    cfg,          \* config: [sensor, publish_online_status, expire_after], fixed after load_config
    pijuice,      \* the registers of the PiJuice behind the interface object of line 29
    main,         \* position of the main thread in lines 224-231
    handlers,     \* signals whose handler is on_exit
    signalled,    \* whether a termination signal has been delivered
    hpc,          \* position of on_exit on the main thread
    joining,      \* the Timer on_exit's join() is blocked on (0: none)
    exitStatus,   \* "none", or the exit status the main thread left with: "0", "1"
    proc,         \* "running" or "terminated"
    timer_thread, \* the global timer_thread: 0 is None, k is Timer k
    timer,        \* Timer k: "none","created","waiting","running","dead"
    finished,     \* Timer k's finished event (set by cancel() and at the end of run)
    inv,          \* position of invocation k of publish_pijuice
    doc,          \* the keys of pijuice_status that invocation k has assembled
    session,      \* number of the current broker session (0: none yet)
    conn,         \* "none","connack" (CONNECT sent),"connected","lost"
    clientWill,   \* the will stored in the client by will_set (<<>>: none)
    sessionWill,  \* session s: whether its CONNECT packet carried the will
    cb,           \* position of mqtt_on_connect on the main thread
    cbDone,       \* sessions for which mqtt_on_connect has run to its end
    cbRaised,     \* sessions whose mqtt_on_connect a failed metadata lookup ended
    brokerWill,   \* sessions for which the broker published the will
    calls,        \* device-metadata getters called so far
    service,      \* the messages published on the availability topic, in order
    status,       \* the messages published on the status topic, in order
    ha            \* the messages published on the autodiscovery topics, in order

vars == <<cfg, pijuice, cbRaised, main, handlers, signalled, hpc, joining, exitStatus, proc, timer_thread,
          timer, finished, inv, doc, session, conn, clientWill, sessionWill,
          cb, cbDone, brokerWill, calls, service, status, ha>>

Timers == 1..MaxTimers
Invocations == 0..(MaxTimers - 1)
Sessions == 1..MaxSessions

\* Topics (f-strings of lines 61, 67, 106, 122, 139, 154, 168, 192, 211).
ServiceTopic == "pijuicemqtt/host/service"
StatusTopic == "pijuicemqtt/host/status"
HaTopics == <<"homeassistant/sensor/pijuicemqtt-host/batteryCharge/config",
              "homeassistant/binary_sensor/pijuicemqtt-host/powerInput5vIo/config",
              "homeassistant/sensor/pijuicemqtt-host/batteryTemperature/config",
              "homeassistant/sensor/pijuicemqtt-host/batteryStatus/config">>
IsHaTopic(t) == \E i \in 1..Len(HaTopics) : HaTopics[i] = t

\* The keys of the /status document in the order of the dict display, each with
\* the lookup that yields it; lookup 1 is GetStatus()["data"] and yields none.
StatusKeys == <<"batteryCharge", "batteryVoltage", "batteryCurrent",
                "batteryTemperature", "batteryStatus", "powerInput",
                "powerInput5vIo", "ioVoltage", "ioCurrent">>
\* The keys whose lookups succeeded when lookup f raises (f = 0: none raises).
KeysBefore(f) ==
    IF f = 0 THEN {StatusKeys[i] : i \in 1..Len(StatusKeys)}
    ELSE {StatusKeys[i] : i \in 1..(IF f >= 2 THEN f - 2 ELSE 0)}

\* A message handed to client.publish.  src and n are not part of the message:
\* they record who published it ("connect" of session n, "cycle" n, "exit").
\* keys are the keys of the /status document ({} on the other topics).
Msg(topic, payload, keys, qos, retain, src, n) ==
    [topic |-> topic, payload |-> payload, keys |-> keys, qos |-> qos,
     retain |-> retain, src |-> src, n |-> n]
\* client.publish(topic, ...): the message joins the stream of its topic.
Publish(m) ==
    /\ service' = IF m.topic = ServiceTopic THEN Append(service, m) ELSE service
    /\ status' = IF m.topic = StatusTopic THEN Append(status, m) ELSE status
    /\ ha' = IF IsHaTopic(m.topic) THEN Append(ha, m) ELSE ha

(***************************************************************************)
(* The device, the configuration values and the JSON documents.            *)
(***************************************************************************)
\* Line 17, config["hostname"], and pijuice.__version__ (line 15).
SERVICE_NAME == "pijuicemqtt"
hostname == "host"
library_version == "1.8"

\* What the getters of the PiJuice interface return as ["data"]: capacity
\* (GetBatteryProfile), version (GetFirmwareVersion), battery, powerInput and
\* powerInput5vIo (GetStatus), and one register per other getter of lines
\* 200-208; voltages in mV, currents in mA.  The registers are fixed during a
\* run; runs differ in them.
ReferenceDevice ==
    [capacity |-> 12000, version |-> "1.6", chargeLevel |-> 87,
     batteryVoltage |-> 4050, batteryCurrent |-> -120, batteryTemperature |-> 29,
     battery |-> "CHARGING_FROM_IN", powerInput |-> "PRESENT",
     powerInput5vIo |-> "PRESENT", ioVoltage |-> 5100, ioCurrent |-> 300]
IdleDevice ==
    [capacity |-> 1820, version |-> "1.4", chargeLevel |-> 100,
     batteryVoltage |-> 4000, batteryCurrent |-> 0, batteryTemperature |-> -5,
     battery |-> "NORMAL", powerInput |-> "NOT_PRESENT",
     powerInput5vIo |-> "NOT_PRESENT", ioVoltage |-> 65, ioCurrent |-> -2505]
LoadedDevice ==
    [capacity |-> 12000, version |-> "1.6", chargeLevel |-> 5,
     batteryVoltage |-> 3201, batteryCurrent |-> 1000, batteryTemperature |-> 41,
     battery |-> "NORMAL", powerInput |-> "NOT_PRESENT",
     powerInput5vIo |-> "PRESENT", ioVoltage |-> 4990, ioCurrent |-> -10]
Devices == {ReferenceDevice, IdleDevice, LoadedDevice}

\* config["homeassistant"]["expire_after"] as the YAML file gives it: absent
\* (<<>>), or a number num/den (60, 60.5).
ExpireAfter == {<<>>, <<[num |-> 60, den |-> 1]>>, <<[num |-> 121, den |-> 2]>>}
\* Line 95: int(x) truncates toward zero.
int(x) == IF x.num >= 0 THEN x.num \div x.den ELSE -((-x.num) \div x.den)

\* json.dumps of a str whose characters need no escape.
Str(x) == "\"" \o x \o "\""

\* The digits of n, n < 10^w, padded with zeros to width w <= 3.
Pad(n, w) ==
    (IF w >= 3 /\ n < 100 THEN "0" ELSE "") \o (IF w >= 2 /\ n < 10 THEN "0" ELSE "")
        \o ToString(n)

\* raw // 1000: the floor division, an int.
Div1000_floor(raw) == ToString(raw \div 1000)

\* Lines 201, 202, 207, 208: json.dumps of the float raw / 1000, which is the
\* shortest decimal that reads back as this float: the thousandths without
\* trailing zeros, and at least one digit after the point.
Div1000(raw) ==
    LET a == IF raw < 0 THEN -raw ELSE raw
        f == a % 1000
    IN  (IF raw < 0 THEN "-" ELSE "") \o ToString(a \div 1000) \o "."
            \o (IF f % 100 = 0 THEN ToString(f \div 100)
                ELSE IF f % 10 = 0 THEN Pad(f \div 10, 2)
                ELSE Pad(f, 3))

\* A dict is the sequence of its items <<key, JSON text of the value>> in
\* insertion order.  json.dumps(d) with the default separators.
RECURSIVE Members(_)
Members(d) ==
    IF d = <<>> THEN ""
    ELSE Str(d[1][1]) \o ": " \o d[1][2] \o (IF Len(d) > 1 THEN ", " ELSE "")
             \o Members(Tail(d))
dumps(d) == "{" \o Members(d) \o "}"

Keys(d) == {d[i][1] : i \in 1..Len(d)}
\* {**a, **b}: the items of a, a value replaced where b has the key, then the
\* items of b under new keys.
Merge(a, b) ==
    [i \in 1..Len(a) |->
        IF a[i][1] \in Keys(b)
        THEN <<a[i][1], b[CHOOSE j \in 1..Len(b) : b[j][1] = a[i][1]][2]>>
        ELSE a[i]]
    \o SelectSeq(b, LAMBDA item : item[1] \notin Keys(a))

\* Lines 79-95: base_payload, from the metadata read at lines 77-78.
base_payload ==
    Merge(<< <<"availability_topic", Str(ServiceTopic)>>,
             <<"payload_available", Str("online")>>,
             <<"payload_not_available", Str("offline")>>,
             <<"state_topic", Str(StatusTopic)>>,
             <<"json_attributes_topic", Str(StatusTopic)>>,
             <<"device",
               dumps(<< <<"identifiers",
                          "[" \o Str(SERVICE_NAME \o "-" \o hostname) \o "]">>,
                        <<"name", Str(hostname \o " PiJuice")>>,
                        <<"sw_version",
                          Str("Library " \o library_version \o ", Firmware "
                                  \o pijuice.version)>>,
                        <<"model",
                          Str("PiJuice " \o ToString(pijuice.capacity) \o " mAh")>>,
                        <<"manufacturer", Str("PiSupply")>> >>)>> >>,
          IF cfg.expire_after = <<>> THEN <<>>
          ELSE << <<"expire_after", ToString(int(cfg.expire_after[1]))>> >>)

\* A payload whose unique_id is made anew for every connection.
payload_perConnection(i) ==
    << <<"name", Str(hostname \o " PiJuice")>>,
       <<"unique_id",
         Str(SERVICE_NAME \o "-" \o hostname \o "-" \o ToString(i) \o "-"
                 \o ToString(session))>> >>

\* Lines 98-104, 113-120, 129-137, 146-152: the payload of the i-th sensor.
payload(i) ==
    CASE i = 1 ->
           << <<"name", Str(hostname \o " PiJuice Battery")>>,
              <<"unique_id", Str(SERVICE_NAME \o "-" \o hostname \o "-batteryCharge")>>,
              <<"value_template", Str("{{ value_json.batteryCharge }}")>>,
              <<"device_class", Str("battery")>>,
              <<"unit_of_measurement", Str("%")>> >>
      [] i = 2 ->
           << <<"name", Str(hostname \o " PiJuice PowerInput5vIo")>>,
              <<"unique_id", Str(SERVICE_NAME \o "-" \o hostname \o "-powerInput5vIo")>>,
              <<"value_template", Str("{{ value_json.powerInput5vIo }}")>>,
              <<"payload_off", Str("NOT_PRESENT")>>,
              <<"payload_on", Str("PRESENT")>>,
              <<"device_class", Str("power")>> >>
      [] i = 3 ->
           << <<"name", Str(hostname \o " PiJuice BatteryTemperature")>>,
              <<"unique_id",
                Str(SERVICE_NAME \o "-" \o hostname \o "-batteryTemperature")>>,
              <<"value_template", Str("{{ value_json.batteryTemperature }}")>>,
              <<"device_class", Str("temperature")>>,
              <<"unit_of_measurement", Str("\\u00b0C")>>,
              <<"enabled_by_default", "false">>,
              <<"entity_category", Str("diagnostic")>> >>
      [] i = 4 ->
           << <<"name", Str(hostname \o " PiJuice BatteryStatus")>>,
              <<"unique_id", Str(SERVICE_NAME \o "-" \o hostname \o "-batteryStatus")>>,
              <<"value_template", Str("{{ value_json.batteryStatus }}")>>,
              <<"enabled_by_default", "false">>,
              <<"entity_category", Str("diagnostic")>> >>

\* Lines 199-209: pijuice_status when every lookup succeeds.
pijuice_status ==
    << <<"batteryCharge", ToString(pijuice.chargeLevel)>>,
       <<"batteryVoltage", Div1000(pijuice.batteryVoltage)>>,
       <<"batteryCurrent", Div1000(pijuice.batteryCurrent)>>,
       <<"batteryTemperature", ToString(pijuice.batteryTemperature)>>,
       <<"batteryStatus", Str(pijuice.battery)>>,
       <<"powerInput", Str(pijuice.powerInput)>>,
       <<"powerInput5vIo", Str(pijuice.powerInput5vIo)>>,
       <<"ioVoltage", Div1000(pijuice.ioVoltage)>>,
       <<"ioCurrent", Div1000(pijuice.ioCurrent)>> >>

\* The state when line 224 is reached, but for the configuration and the device.
Boot ==
    /\ main = "connect"
    /\ handlers = {}
    /\ signalled = FALSE
    /\ hpc = "none"
    /\ joining = 0
    /\ exitStatus = "none"
    /\ proc = "running"
    /\ timer_thread = 0
    /\ timer = [k \in Timers |-> "none"]
    /\ finished = [k \in Timers |-> FALSE]
    /\ inv = [k \in Invocations |-> "idle"]
    /\ doc = [k \in Invocations |-> {}]
    /\ session = 0
    /\ conn = "none"
    /\ clientWill = <<>>
    /\ sessionWill = [s \in Sessions |-> FALSE]
    /\ cb = "none"
    /\ cbDone = {}
    /\ cbRaised = {}
    /\ brokerWill = {}
    /\ calls = {}
    /\ service = <<>>
    /\ status = <<>>
    /\ ha = <<>>

\* The default configuration (no expire_after) and the reference device.
Init ==
    /\ cfg \in [sensor : BOOLEAN, publish_online_status : BOOLEAN,
                expire_after : {<<>>}]
    /\ pijuice = ReferenceDevice
    /\ Boot

\* Announcing configurations, and every device.
InitDevice ==
    /\ cfg \in [sensor : {TRUE}, publish_online_status : BOOLEAN,
                expire_after : ExpireAfter]
    /\ pijuice \in Devices
    /\ Boot

(***************************************************************************)
(* The main program, lines 221-231.                                        *)
(***************************************************************************)
\* The main thread executes its own code: it is alive and not inside on_exit.
MainRuns == proc = "running" /\ hpc = "none" /\ main # "dead"

\* Line 224: client.connect sends the CONNECT packet of the first session; the
\* packet carries the will the client holds at that moment.
Connect ==
    /\ MainRuns /\ main = "connect"
    /\ main' = "sigint"
    /\ session' = 1
    /\ sessionWill' = [sessionWill EXCEPT ![1] = (clientWill # <<>>)]
    /\ conn' = "connack"
    /\ UNCHANGED <<cfg, pijuice, cbRaised, handlers, signalled, hpc, joining, exitStatus, proc, timer_thread,
                   timer, finished, inv, doc, clientWill, cb, cbDone, brokerWill,
                   calls, service, status, ha>>

\* Line 227: signal.signal(signal.SIGINT, on_exit).
InstallSigint ==
    /\ MainRuns /\ main = "sigint"
    /\ main' = "sigterm"
    /\ handlers' = handlers \cup {"SIGINT"}
    /\ UNCHANGED <<cfg, pijuice, cbRaised, signalled, hpc, joining, exitStatus, proc, timer_thread, timer,
                   finished, inv, doc, session, conn, clientWill, sessionWill, cb,
                   cbDone, brokerWill, calls, service, status, ha>>

\* Line 228: signal.signal(signal.SIGTERM, on_exit).
InstallSigterm ==
    /\ MainRuns /\ main = "sigterm"
    /\ main' = "call"
    /\ handlers' = handlers \cup {"SIGTERM"}
    /\ UNCHANGED <<cfg, pijuice, cbRaised, signalled, hpc, joining, exitStatus, proc, timer_thread, timer,
                   finished, inv, doc, session, conn, clientWill, sessionWill, cb,
                   cbDone, brokerWill, calls, service, status, ha>>

\* Line 230: the explicit first call publish_pijuice(), on the main thread.
CallPublish ==
    /\ MainRuns /\ main = "call"
    /\ main' = "cycle0"
    /\ inv' = [inv EXCEPT ![0] = "create"]
    /\ UNCHANGED <<cfg, pijuice, cbRaised, handlers, signalled, hpc, joining, exitStatus, proc, timer_thread,
                   timer, finished, doc, session, conn, clientWill, sessionWill, cb,
                   cbDone, brokerWill, calls, service, status, ha>>

(***************************************************************************)
(* publish_pijuice, lines 178-215: invocation k.                           *)
(***************************************************************************)
\* The thread of invocation k is executing it.
Runs(k) ==
    /\ proc = "running"
    /\ IF k = 0 THEN main = "cycle0" /\ hpc = "none" ELSE timer[k] = "running"

\* Invocation k returns to a Timer that repeats: its thread waits again
\* instead of ending.
Returned_repeating(k) ==
    IF k = 0
    THEN main' = "loop" /\ UNCHANGED <<timer, finished>>
    ELSE /\ main' = main
         /\ timer' = [timer EXCEPT ![k] = "waiting"]
         /\ finished' = finished

\* Invocation k returns: the main thread goes on to line 231, a Timer thread
\* sets its finished event and ends (the last line of Timer.run).
Returned(k) ==
    IF k = 0
    THEN main' = "loop" /\ UNCHANGED <<timer, finished>>
    ELSE /\ main' = main
         /\ timer' = [timer EXCEPT ![k] = "dead"]
         /\ finished' = [finished EXCEPT ![k] = TRUE]

\* Line 185: timer_thread = threading.Timer(publish_period, publish_pijuice).
CreateTimer(k) ==
    /\ Runs(k) /\ inv[k] = "create"
    /\ timer' = [timer EXCEPT ![k + 1] = "created"]
    /\ timer_thread' = k + 1
    /\ inv' = [inv EXCEPT ![k] = "start"]
    /\ UNCHANGED <<cfg, pijuice, cbRaised, main, handlers, signalled, hpc, joining, exitStatus, proc,
                   finished, doc, session, conn, clientWill, sessionWill, cb,
                   cbDone, brokerWill, calls, service, status, ha>>

\* Line 186 left out: the Timer created at line 185 is never started.
StartTimer_forgotten(k) ==
    /\ Runs(k) /\ inv[k] = "start"
    /\ inv' = [inv EXCEPT ![k] = "heartbeat"]
    /\ UNCHANGED <<cfg, pijuice, cbRaised, main, handlers, signalled, hpc, joining, exitStatus, proc,
                   timer_thread, timer, finished, doc, session, conn, clientWill,
                   sessionWill, cb, cbDone, brokerWill, calls, service, status, ha>>

\* Line 186: timer_thread.start(), on the Timer the global refers to.
StartTimer(k) ==
    /\ Runs(k) /\ inv[k] = "start"
    /\ timer' = [timer EXCEPT ![timer_thread] =
                     IF @ = "created" THEN "waiting" ELSE @]
    /\ inv' = [inv EXCEPT ![k] = "heartbeat"]
    /\ UNCHANGED <<cfg, pijuice, cbRaised, main, handlers, signalled, hpc, joining, exitStatus, proc,
                   timer_thread, finished, doc, session, conn, clientWill,
                   sessionWill, cb, cbDone, brokerWill, calls, service, status, ha>>

\* Lines 190-196 with the publish defaults of line 210 (qos=0, retain=False).
Heartbeat_defaults(k) ==
    /\ Runs(k) /\ inv[k] = "heartbeat"
    /\ IF cfg.publish_online_status
       THEN Publish(Msg(ServiceTopic, "online", {}, 0, FALSE, "cycle", k))
       ELSE UNCHANGED <<service, status, ha>>
    /\ inv' = [inv EXCEPT ![k] = "read"]
    /\ UNCHANGED <<cfg, pijuice, cbRaised, main, handlers, signalled, hpc, joining, exitStatus,
                   proc, timer_thread, timer, finished, doc, session, conn,
                   clientWill, sessionWill, cb, cbDone, brokerWill, calls>>

\* Lines 191-196 without the test of line 190.
Heartbeat_unconditional(k) ==
    /\ Runs(k) /\ inv[k] = "heartbeat"
    /\ Publish(Msg(ServiceTopic, "online", {}, 1, TRUE, "cycle", k))
    /\ inv' = [inv EXCEPT ![k] = "read"]
    /\ UNCHANGED <<cfg, pijuice, cbRaised, main, handlers, signalled, hpc, joining, exitStatus,
                   proc, timer_thread, timer, finished, doc, session, conn,
                   clientWill, sessionWill, cb, cbDone, brokerWill, calls>>

\* Lines 190-196: the optional "online" heartbeat.
Heartbeat(k) ==
    /\ Runs(k) /\ inv[k] = "heartbeat"
    /\ IF cfg.publish_online_status
       THEN Publish(Msg(ServiceTopic, "online", {}, 1, TRUE, "cycle", k))
       ELSE UNCHANGED <<service, status, ha>>
    /\ inv' = [inv EXCEPT ![k] = "read"]
    /\ UNCHANGED <<cfg, pijuice, cbRaised, main, handlers, signalled, hpc, joining, exitStatus, proc,
                   timer_thread, timer, finished, doc, session, conn, clientWill,
                   sessionWill, cb, cbDone, brokerWill, calls>>

\* The try statement without its except clause taking effect: the publish of
\* line 210 is reached whatever the lookups did.
AfterReads_uncaught(f) == "publish"

\* Lines 188, 214-215: where the try statement goes after the lookups, of which
\* lookup f raised KeyError (f = 0: none did).
AfterReads(f) == IF f = 0 THEN "publish" ELSE "skipped"

\* Lines 198-209: the ten lookups that build pijuice_status; any of them may
\* lack its key.  A KeyError is caught at line 214 and the function returns.
ReadAll(k) ==
    /\ Runs(k) /\ inv[k] = "read"
    /\ \E end \in {<<AfterReads(f), IF AfterReads(f) = "publish" THEN KeysBefore(f) ELSE {}>> :
                        f \in 0..NumLookups} :
        /\ inv' = [inv EXCEPT ![k] = end[1]]
        /\ IF end[1] = "publish"
           THEN /\ doc' = [doc EXCEPT ![k] = end[2]]
                /\ UNCHANGED <<main, timer, finished>>
           ELSE /\ doc' = doc
                /\ Returned(k)
    /\ UNCHANGED <<cfg, pijuice, cbRaised, handlers, signalled, hpc, joining, exitStatus, proc, timer_thread,
                   session, conn, clientWill, sessionWill, cb, cbDone, brokerWill,
                   calls, service, status, ha>>

\* Lines 210-213: client.publish(<status topic>, dumps(pijuice_status)) with
\* the defaults qos=0, retain=False; then the function returns.
PublishStatus(k) ==
    /\ Runs(k) /\ inv[k] = "publish"
    /\ Publish(Msg(StatusTopic, dumps(pijuice_status), doc[k], 0, FALSE, "cycle", k))
    /\ doc' = [doc EXCEPT ![k] = {}]
    /\ inv' = [inv EXCEPT ![k] = "done"]
    /\ Returned(k)
    /\ UNCHANGED <<cfg, pijuice, cbRaised, handlers, signalled, hpc, joining, exitStatus, proc, timer_thread,
                   session, conn, clientWill, sessionWill, cb, cbDone, brokerWill,
                   calls>>

\* The statements of publish_pijuice at which invocation k can raise an
\* exception other than KeyError, placed as if line 186 were among them.
CanRaise_beforeStart(k) == inv[k] \in {"start", "heartbeat", "read", "publish"}

\* The statements at which invocation k can raise an exception other than
\* KeyError: the publish of line 191, a lookup or a division of lines 198-208,
\* dumps and the publish of lines 210-213.
CanRaise(k) ==
    \/ inv[k] = "heartbeat" /\ cfg.publish_online_status
    \/ inv[k] \in {"read", "publish"}

\* Such an exception is not caught by line 214 and leaves the function.  A
\* Timer thread ends with a traceback, and Timer.run does not reach its last
\* line, which sets finished; the main thread (invocation 0) leaves line 230
\* and the main program with the exception.
Raise(k) ==
    /\ Runs(k)
    /\ CanRaise(k)
    /\ inv' = [inv EXCEPT ![k] = "raised"]
    /\ IF k = 0
       THEN main' = "dead" /\ exitStatus' = "1" /\ timer' = timer
       ELSE timer' = [timer EXCEPT ![k] = "dead"] /\ UNCHANGED <<main, exitStatus>>
    /\ UNCHANGED <<cfg, pijuice, cbRaised, handlers, signalled, hpc, joining, proc, timer_thread,
                   finished, doc, session, conn, clientWill, sessionWill, cb,
                   cbDone, brokerWill, calls, service, status, ha>>

(***************************************************************************)
(* threading.Timer threads created at line 185.                            *)
(***************************************************************************)
\* Timer.run: the wait timed out and the finished event is not set, so the
\* function is called: invocation k starts on Timer k's thread.
TimerFire(k) ==
    /\ proc = "running"
    /\ k < MaxTimers
    /\ timer[k] = "waiting" /\ ~finished[k]
    /\ timer' = [timer EXCEPT ![k] = "running"]
    /\ inv' = [inv EXCEPT ![k] = "create"]
    /\ UNCHANGED <<cfg, pijuice, cbRaised, main, handlers, signalled, hpc, joining, exitStatus, proc,
                   timer_thread, finished, doc, session, conn, clientWill,
                   sessionWill, cb, cbDone, brokerWill, calls, service, status, ha>>

\* Timer.run: the finished event was set by cancel(), the thread ends without
\* calling the function.
TimerCancelled(k) ==
    /\ proc = "running"
    /\ timer[k] = "waiting" /\ finished[k]
    /\ timer' = [timer EXCEPT ![k] = "dead"]
    /\ UNCHANGED <<cfg, pijuice, cbRaised, main, handlers, signalled, hpc, joining, exitStatus, proc,
                   timer_thread, finished, inv, doc, session, conn, clientWill,
                   sessionWill, cb, cbDone, brokerWill, calls, service, status, ha>>

(***************************************************************************)
(* client.loop_forever (line 231) and mqtt_on_connect, lines 57-158.       *)
(***************************************************************************)
\* The main thread dies at its current position with an exception (code "1")
\* or SystemExit(0) (code "0"); an invocation 0 or a callback in progress on it
\* is abandoned where it stands.
MainLeaves(code) ==
    /\ main' = "dead"
    /\ exitStatus' = code
    /\ inv' = IF main = "cycle0" THEN [inv EXCEPT ![0] = "aborted"] ELSE inv
    /\ cb' = "none"

\* The connect callback returns.
CallbackEnds ==
    /\ cb' = "none"
    /\ cbDone' = cbDone \cup {session}

\* loop_forever processes the CONNACK of the current session and calls
\* client.on_connect (set at line 222).
OnConnect ==
    /\ MainRuns /\ main = "loop" /\ cb = "none"
    /\ conn = "connack"
    /\ conn' = "connected"
    /\ cb' = "will_set"
    /\ UNCHANGED <<cfg, pijuice, cbRaised, main, handlers, signalled, hpc, joining, exitStatus, proc,
                   timer_thread, timer, finished, inv, doc, session, clientWill,
                   sessionWill, cbDone, brokerWill, calls, service, status, ha>>

\* Lines 60-65: client.will_set stores the will in the client; it is sent with
\* the next CONNECT packet only.
CbWillSet ==
    /\ MainRuns /\ cb = "will_set"
    /\ clientWill' = <<Msg(ServiceTopic, "offline", {}, 1, TRUE, "will", session)>>
    /\ cb' = "online"
    /\ UNCHANGED <<cfg, pijuice, cbRaised, main, handlers, signalled, hpc, joining, exitStatus, proc,
                   timer_thread, timer, finished, inv, doc, session, conn,
                   sessionWill, cbDone, brokerWill, calls, service, status, ha>>

\* Line 74 without its test: the announcement runs whatever the option says.
AnnounceEnabled_always == TRUE

\* Line 74 testing the connection as well: only the first connection announces.
AnnounceEnabled_firstSession == cfg.sensor /\ session = 1

\* Line 74: if config["homeassistant"]["sensor"].
AnnounceEnabled == cfg.sensor

\* Lines 66-74: publish "online", then branch on homeassistant.sensor.
CbOnline ==
    /\ MainRuns /\ cb = "online"
    /\ Publish(Msg(ServiceTopic, "online", {}, 1, TRUE, "connect", session))
    /\ IF AnnounceEnabled
       THEN cb' = "profile" /\ cbDone' = cbDone
       ELSE CallbackEnds
    /\ UNCHANGED <<cfg, pijuice, cbRaised, main, handlers, signalled, hpc, joining, exitStatus, proc,
                   timer_thread, timer, finished, inv, doc, session, conn,
                   clientWill, sessionWill, brokerWill, calls>>

\* A device-metadata lookup whose KeyError is swallowed: the callback notes the
\* failure and goes on to announce.
CbMeta_swallowed(pc, getter, next) ==
    /\ MainRuns /\ cb = pc
    /\ calls' = calls \cup {getter}
    /\ cb' = next
    /\ \/ cbRaised' = cbRaised
       \/ cbRaised' = cbRaised \cup {session}
    /\ UNCHANGED <<cfg, pijuice, main, exitStatus, inv, handlers, signalled, hpc,
                   joining, proc, timer_thread, timer, finished, doc, session, conn,
                   clientWill, sessionWill, cbDone, brokerWill, service, status, ha>>

\* A device-metadata lookup of lines 77-78: it yields its value, or lacks its
\* key; the KeyError leaves the callback and loop_forever, and the main thread
\* ends with a traceback.
CbMeta(pc, getter, next) ==
    /\ MainRuns /\ cb = pc
    /\ calls' = calls \cup {getter}
    /\ \/ /\ cb' = next
          /\ UNCHANGED <<main, exitStatus, inv, cbRaised>>
       \/ /\ MainLeaves("1")
          /\ cbRaised' = cbRaised \cup {session}
    /\ UNCHANGED <<cfg, pijuice, handlers, signalled, hpc, joining, proc, timer_thread, timer,
                   finished, doc, session, conn, clientWill, sessionWill, cbDone,
                   brokerWill, service, status, ha>>

\* Line 77.
CbProfile == CbMeta("profile", "GetBatteryProfile", "firmware")
\* Line 78.
CbFirmware == CbMeta("firmware", "GetFirmwareVersion", "doc1")

\* Lines 105, 121, 138, 153: the i-th autodiscovery publish.
CbDocPc == <<"doc1", "doc2", "doc3", "doc4">>
CbDoc(i) ==
    /\ MainRuns /\ cb = CbDocPc[i]
    /\ Publish(Msg(HaTopics[i], dumps(Merge(base_payload, payload(i))), {},
                   1, TRUE, "connect", session))
    /\ IF i < Len(CbDocPc)
       THEN cb' = CbDocPc[i + 1] /\ cbDone' = cbDone
       ELSE CallbackEnds
    /\ UNCHANGED <<cfg, pijuice, cbRaised, main, handlers, signalled, hpc, joining, exitStatus, proc,
                   timer_thread, timer, finished, inv, doc, session, conn,
                   clientWill, sessionWill, brokerWill, calls>>

\* loop_forever finds the connection lost (no DISCONNECT packet was sent); the
\* broker publishes the will of the session if the session's CONNECT carried
\* one.
ConnectionLost ==
    /\ MainRuns /\ main = "loop" /\ cb = "none"
    /\ conn = "connected"
    /\ conn' = "lost"
    /\ brokerWill' = IF sessionWill[session] THEN brokerWill \cup {session}
                     ELSE brokerWill
    /\ UNCHANGED <<cfg, pijuice, cbRaised, main, handlers, signalled, hpc, joining, exitStatus, proc,
                   timer_thread, timer, finished, inv, doc, session, clientWill,
                   sessionWill, cb, cbDone, calls, service, status, ha>>

\* loop_forever reconnects: a new CONNECT packet with the will the client
\* holds now.
Reconnect ==
    /\ MainRuns /\ main = "loop" /\ cb = "none"
    /\ conn = "lost"
    /\ session < MaxSessions
    /\ session' = session + 1
    /\ sessionWill' = [sessionWill EXCEPT ![session + 1] = (clientWill # <<>>)]
    /\ conn' = "connack"
    /\ UNCHANGED <<cfg, pijuice, cbRaised, main, handlers, signalled, hpc, joining, exitStatus, proc,
                   timer_thread, timer, finished, inv, doc, clientWill, cb, cbDone,
                   brokerWill, calls, service, status, ha>>

(***************************************************************************)
(* on_exit, lines 160-175, run on the main thread as a signal handler.     *)
(***************************************************************************)
\* A termination signal s whose handler is on_exit arrives: the main thread is
\* interrupted where it stands.  on_exit reads neither signum nor frame, so
\* which signal it was leaves no trace in the state.
Deliver(s) ==
    /\ MainRuns
    /\ ~signalled
    /\ s \in handlers
    /\ signalled' = TRUE
    /\ hpc' = "publish"
    /\ UNCHANGED <<cfg, pijuice, cbRaised, main, handlers, joining, exitStatus, proc, timer_thread,
                   timer, finished, inv, doc, session, conn, clientWill,
                   sessionWill, cb, cbDone, brokerWill, calls, service, status, ha>>

InHandler(pc) == proc = "running" /\ main # "dead" /\ hpc = pc

\* Lines 167-172: publish "offline".
ExitPublish ==
    /\ InHandler("publish")
    /\ Publish(Msg(ServiceTopic, "offline", {}, 1, TRUE, "exit", 0))
    /\ hpc' = "cancel"
    /\ UNCHANGED <<cfg, pijuice, cbRaised, main, handlers, signalled, joining, exitStatus, proc,
                   timer_thread, timer, finished, inv, doc, session, conn,
                   clientWill, sessionWill, cb, cbDone, brokerWill, calls>>

\* Line 173: timer_thread.cancel() sets the finished event of the Timer the
\* global refers to now; on None it raises AttributeError.
ExitCancel ==
    /\ InHandler("cancel")
    /\ IF timer_thread = 0
       THEN /\ MainLeaves("1")
            /\ hpc' = "raised"
            /\ finished' = finished
       ELSE /\ finished' = [finished EXCEPT ![timer_thread] = TRUE]
            /\ hpc' = "join"
            /\ UNCHANGED <<main, exitStatus, inv, cb>>
    /\ UNCHANGED <<cfg, pijuice, cbRaised, handlers, signalled, joining, proc, timer_thread, timer, doc,
                   session, conn, clientWill, sessionWill, cbDone, brokerWill,
                   calls, service, status, ha>>

\* Line 174: timer_thread.join() on the Timer the global refers to now; on a
\* Timer that was created and not yet started it raises RuntimeError.
ExitJoin ==
    /\ InHandler("join")
    /\ IF timer[timer_thread] = "created"
       THEN /\ MainLeaves("1")
            /\ hpc' = "raised"
            /\ joining' = joining
       ELSE /\ joining' = timer_thread
            /\ hpc' = "joining"
            /\ UNCHANGED <<main, exitStatus, inv, cb>>
    /\ UNCHANGED <<cfg, pijuice, cbRaised, handlers, signalled, proc, timer_thread, timer, finished, doc,
                   session, conn, clientWill, sessionWill, cbDone, brokerWill,
                   calls, service, status, ha>>

\* join() returns when the thread of the joined Timer has ended.
ExitJoinReturns ==
    /\ InHandler("joining")
    /\ timer[joining] = "dead"
    /\ hpc' = "exit"
    /\ UNCHANGED <<cfg, pijuice, cbRaised, main, handlers, signalled, joining, exitStatus, proc,
                   timer_thread, timer, finished, inv, doc, session, conn,
                   clientWill, sessionWill, cb, cbDone, brokerWill, calls, service, status, ha>>

\* Line 175: sys.exit(0) raises SystemExit on the main thread.
ExitSysExit ==
    /\ InHandler("exit")
    /\ MainLeaves("0")
    /\ hpc' = "exited"
    /\ UNCHANGED <<cfg, pijuice, cbRaised, handlers, signalled, joining, proc, timer_thread, timer,
                   finished, doc, session, conn, clientWill, sessionWill, cbDone,
                   brokerWill, calls, service, status, ha>>

\* The interpreter ends once the main thread has left and no non-daemon thread
\* (a started Timer) is alive; the process exits with exitStatus.
Terminate ==
    /\ proc = "running"
    /\ main = "dead"
    /\ \A k \in Timers : timer[k] \notin {"waiting", "running"}
    /\ proc' = "terminated"
    /\ UNCHANGED <<cfg, pijuice, cbRaised, main, handlers, signalled, hpc, joining, exitStatus,
                   timer_thread, timer, finished, inv, doc, session, conn,
                   clientWill, sessionWill, cb, cbDone, brokerWill, calls, service, status, ha>>

Next ==
    \/ Connect
    \/ InstallSigint
    \/ InstallSigterm
    \/ CallPublish
    \/ \E k \in Invocations : CreateTimer(k)
    \/ \E k \in Invocations : StartTimer(k)
    \/ \E k \in Invocations : Heartbeat(k)
    \/ \E k \in Invocations : ReadAll(k)
    \/ \E k \in Invocations : PublishStatus(k)
    \/ \E k \in Timers : TimerFire(k)
    \/ \E k \in Timers : TimerCancelled(k)
    \/ OnConnect
    \/ CbWillSet
    \/ CbOnline
    \/ CbProfile
    \/ CbFirmware
    \/ \E i \in 1..Len(CbDocPc) : CbDoc(i)
    \/ ConnectionLost
    \/ Reconnect
    \/ \E s \in {"SIGINT", "SIGTERM"} : Deliver(s)
    \/ ExitPublish
    \/ ExitCancel
    \/ ExitJoin
    \/ ExitJoinReturns
    \/ ExitSysExit
    \/ Terminate

Spec == Init /\ [][Next]_vars

\* The runs of one connection in which, besides, a statement of a cycle may
\* raise an exception that line 214 does not catch.
NextRaise ==
    \/ Connect
    \/ InstallSigint
    \/ InstallSigterm
    \/ CallPublish
    \/ \E k \in Invocations : CreateTimer(k)
    \/ \E k \in Invocations : StartTimer(k)
    \/ \E k \in Invocations : Heartbeat(k)
    \/ \E k \in Invocations : ReadAll(k)
    \/ \E k \in Invocations : PublishStatus(k)
    \/ \E k \in Invocations : Raise(k)
    \/ \E k \in Timers : TimerFire(k)
    \/ \E k \in Timers : TimerCancelled(k)
    \/ OnConnect
    \/ CbWillSet
    \/ CbOnline
    \/ CbProfile
    \/ CbFirmware
    \/ \E i \in 1..Len(CbDocPc) : CbDoc(i)
    \/ \E s \in {"SIGINT", "SIGTERM"} : Deliver(s)
    \/ ExitPublish
    \/ ExitCancel
    \/ ExitJoin
    \/ ExitJoinReturns
    \/ ExitSysExit
    \/ Terminate

SpecRaise == Init /\ [][NextRaise]_vars

\* The runs in which no termination signal arrives.
NextDevice ==
    \/ Connect
    \/ InstallSigint
    \/ InstallSigterm
    \/ CallPublish
    \/ \E k \in Invocations : CreateTimer(k)
    \/ \E k \in Invocations : StartTimer(k)
    \/ \E k \in Invocations : Heartbeat(k)
    \/ \E k \in Invocations : ReadAll(k)
    \/ \E k \in Invocations : PublishStatus(k)
    \/ \E k \in Timers : TimerFire(k)
    \/ OnConnect
    \/ CbWillSet
    \/ CbOnline
    \/ CbProfile
    \/ CbFirmware
    \/ \E i \in 1..Len(CbDocPc) : CbDoc(i)
    \/ ConnectionLost
    \/ Reconnect

SpecDevice == InitDevice /\ [][NextDevice]_vars

(***************************************************************************)
(* Vocabulary of the properties.                                           *)
(***************************************************************************)
\* Invocation k is between its entry and its return.
InFlight(k) == inv[k] \in {"create", "start", "heartbeat", "read", "publish"}
\* Invocation k has returned (after its /status publish, or after its skip).
Completed(k) == inv[k] \in {"done", "skipped"}
\* Timer k has been started (its thread exists or has existed).
Started(k) == timer[k] \in {"waiting", "running", "dead"}
\* Timer k is pending: started, not yet fired and not cancelled.
Pending(k) == timer[k] = "waiting" /\ ~finished[k]
\* on_exit has published "offline".
OfflinePublished == \E i \in 1..Len(service) : service[i].payload = "offline"
\* The connect callback of session s has published "online".
OnlineByConnect(s) ==
    \E i \in 1..Len(service) :
        /\ service[i].payload = "online"
        /\ service[i].src = "connect"
        /\ service[i].n = s
\* The /status messages of invocation k.
StatusOf(k) == {i \in 1..Len(status) : status[i].n = k}
\* The cancel-and-join sequence of on_exit (lines 173-174) has returned.
JoinReturned == hpc \in {"exit", "exited"}
\* Session s has ended by a lost connection.
Lost(s) == s < session \/ (s = session /\ conn = "lost")

(***************************************************************************)
(* C1.  Shutdown is final for the published stream: once on_exit has       *)
(* published "offline", exactly one "offline" is published by the process  *)
(* and no /status message is published afterwards.                         *)
(***************************************************************************)
C1_ShutdownIsFinal ==
    /\ [](Cardinality({i \in 1..Len(service) : service[i].payload = "offline"}) <= 1)
    /\ [][OfflinePublished => status' = status]_vars

(***************************************************************************)
(* C2.  Two publish cycles never execute in parallel: at most one          *)
(* invocation of publish_pijuice is between its entry and its return.      *)
(***************************************************************************)
C2_NoParallelCycles == Cardinality({k \in Invocations : InFlight(k)}) <= 1

C4_StopSuppressesArming ==
    /\ [](JoinReturned => \A k \in Timers : ~Pending(k))
    /\ [][JoinReturned =>
            \A k \in Timers : timer[k] = "none" => timer'[k] = "none"]_vars

(***************************************************************************)
(* C5.  Every termination signal delivered while the process is connected  *)
(* (the connect callback has run) brings the process to Terminated with    *)
(* exit status 0.  In the form a finite run refutes: once such a signal    *)
(* has been handled and the main thread has left, it has left through      *)
(* sys.exit(0), and no Timer is left pending (a pending Timer fires, runs  *)
(* a cycle and creates its successor, so the process never ends).          *)
(***************************************************************************)
C5_SignalTerminates ==
    (signalled /\ cbDone # {} /\ main = "dead") =>
        /\ exitStatus = "0"
        /\ \A k \in Timers : ~Pending(k)

(***************************************************************************)
(* C6.  For every session in which mqtt_on_connect has run, the first one  *)
(* included, the broker holds the last will of that session, so losing the *)
(* connection of that session makes the broker publish "offline".          *)
(***************************************************************************)
C6_WillHeldForEverySession ==
    \A s \in cbDone :
        /\ sessionWill[s]
        /\ Lost(s) => s \in brokerWill

(***************************************************************************)
(* C7.  Availability goes online before any telemetry: the first           *)
(* publish_pijuice cycle starts, and the first /status message is          *)
(* published, only after the connect callback has published "online".      *)
(***************************************************************************)
C7_OnlineBeforeTelemetry ==
    (inv[0] # "idle" \/ status # <<>>) => \E s \in Sessions : OnlineByConnect(s)

(***************************************************************************)
(* C8.  After on_exit has published "offline" the process never publishes  *)
(* "online" on the availability topic again, so at termination the last    *)
(* value written to the availability topic is "offline".                   *)
(***************************************************************************)
C8_OfflineIsLast ==
    /\ \A i, j \in 1..Len(service) :
          (i < j /\ service[i].payload = "offline") => service[j].payload # "online"
    /\ (proc = "terminated" /\ OfflinePublished)
          => service[Len(service)].payload = "offline"

(***************************************************************************)
(* C9.  A failed read skips the cycle without harming the schedule: a      *)
(* cycle in which a lookup lacks its key publishes no /status message,     *)
(* every /status message holds the complete document, and the successor    *)
(* Timer of a skipped cycle has been started exactly as that of a          *)
(* successful cycle.                                                       *)
(***************************************************************************)
C9_FailedReadSkipsCycle ==
    /\ \A k \in Invocations :
          /\ inv[k] = "skipped" => StatusOf(k) = {}
          /\ Completed(k) => Started(k + 1)
    /\ \A i \in 1..Len(status) : status[i].keys = KeysBefore(0)

\* A cycle was skipped, and the cycle its Timer fired has published /status.
C9_Witness ==
    /\ inv[0] = "skipped"
    /\ inv[1] = "done"
    /\ Len(status) = 1

(***************************************************************************)
(* C10.  With homeassistant.sensor = false no autodiscovery message is     *)
(* published and no device-metadata getter is called, while the connect    *)
(* callback still registers the will and publishes "online", cycles still  *)
(* publish /status and shutdown still publishes "offline".                 *)
(***************************************************************************)
C10_NoAnnouncementWhenDisabled ==
    ~cfg.sensor =>
        /\ ha = <<>>
        /\ calls = {}
        /\ \A s \in cbDone : clientWill # <<>> /\ OnlineByConnect(s)
        /\ \A k \in Invocations : inv[k] = "done" => StatusOf(k) # {}
        /\ hpc \notin {"none", "publish"} => OfflinePublished

\* Announcement disabled: a callback has run, a cycle has published /status and
\* on_exit has published "offline".
C10_Witness ==
    /\ ~cfg.sensor
    /\ cbDone # {}
    /\ status # <<>>
    /\ OfflinePublished

(***************************************************************************)
(* C11.  Autodiscovery is connection-scoped: with homeassistant.sensor     *)
(* enabled, every connect callback that has run to its end (initial        *)
(* connect and reconnects alike) has published exactly the four documents  *)
(* batteryCharge (sensor), powerInput5vIo (binary_sensor),                 *)
(* batteryTemperature (sensor), batteryStatus (sensor), once each and in   *)
(* this order, each retained with qos=1 and after the retained "online"    *)
(* of the same callback; no publish cycle publishes such a document.       *)
(***************************************************************************)
\* The autodiscovery messages of the callback of session s, in order.
DocsOf(s) == SelectSeq(ha, LAMBDA m : m.n = s)

C11_AnnouncementPerConnection ==
    /\ \A i \in 1..Len(ha) :
          /\ ha[i].src = "connect"
          /\ ha[i].qos = 1 /\ ha[i].retain
          /\ \E j \in 1..Len(service) :
                /\ service[j].src = "connect" /\ service[j].n = ha[i].n
                /\ service[j].payload = "online"
                /\ service[j].qos = 1 /\ service[j].retain
    /\ \A s \in Sessions :
          /\ Len(DocsOf(s)) <= Len(HaTopics)
          /\ \A i \in 1..Len(DocsOf(s)) : DocsOf(s)[i].topic = HaTopics[i]
    /\ \A s \in cbDone : cfg.sensor => Len(DocsOf(s)) = Len(HaTopics)

\* Two connections have been acknowledged and announced, and a cycle has
\* published /status in between.
C11_Witness ==
    /\ cfg.sensor
    /\ cbDone = {1, 2}
    /\ Len(ha) = 8
    /\ status # <<>>

(***************************************************************************)
(* C12.  The announcement is deterministic and idempotent: the connect     *)
(* callbacks of one run (same configuration, same device metadata) that    *)
(* ran to their end published the same four topics in the same order with  *)
(* identical documents (the same text, hence the same unique_id and the    *)
(* same fields in the same order), and any two autodiscovery messages on   *)
(* one topic are equal, so a reconnect leaves the retained autodiscovery   *)
(* state as it was.                                                        *)
(***************************************************************************)
\* What a subscriber sees of an autodiscovery message.
Wire(m) == <<m.topic, m.payload, m.keys, m.qos, m.retain>>

C13_DeliveryFlags ==
    /\ \A i \in 1..Len(service) :
          /\ service[i].topic = ServiceTopic
          /\ service[i].retain /\ service[i].qos = 1
          /\ service[i].payload \in {"online", "offline"}
    /\ \A i \in 1..Len(clientWill) :
          /\ clientWill[i].topic = ServiceTopic
          /\ clientWill[i].retain /\ clientWill[i].qos = 1
          /\ clientWill[i].payload = "offline"
    /\ \A i \in 1..Len(status) :
          /\ status[i].topic = StatusTopic
          /\ ~status[i].retain /\ status[i].qos = 0
    /\ \A i \in 1..Len(ha) :
          /\ IsHaTopic(ha[i].topic)
          /\ ha[i].retain /\ ha[i].qos = 1

\* All four kinds of availability message exist, next to a /status message
\* and an autodiscovery document.
C13_Witness ==
    /\ clientWill # <<>>
    /\ \A src \in {"connect", "cycle", "exit"} :
          \E i \in 1..Len(service) : service[i].src = src
    /\ status # <<>>
    /\ ha # <<>>

(***************************************************************************)
(* C14.  A successful cycle publishes one /status document with exactly    *)
(* the nine keys batteryCharge, batteryVoltage, batteryCurrent,            *)
(* batteryTemperature, batteryStatus, powerInput, powerInput5vIo,          *)
(* ioVoltage, ioCurrent: batteryCharge and batteryTemperature are the raw  *)
(* readings, batteryStatus, powerInput and powerInput5vIo the fields of    *)
(* GetStatus, and the four voltages and currents the raw milli-unit        *)
(* integers divided by 1000 (4050 -> 4.05, -120 -> -0.12, 5100 -> 5.1,     *)
(* 300 -> 0.3); for the reference readings the document is the reference   *)
(* document.  The expected documents are written out as json.dumps writes  *)
(* them.                                                                   *)
(***************************************************************************)
C14_Expected ==
    CASE pijuice = ReferenceDevice ->
           "{\"batteryCharge\": 87, \"batteryVoltage\": 4.05, "
           \o "\"batteryCurrent\": -0.12, \"batteryTemperature\": "
           \o "29, \"batteryStatus\": \"CHARGING_FROM_IN\", \"powerInput\": "
           \o "\"PRESENT\", \"powerInput5vIo\": \"PRESENT\", \"ioVoltage\": "
           \o "5.1, \"ioCurrent\": 0.3}"
      [] pijuice = IdleDevice ->
           "{\"batteryCharge\": 100, \"batteryVoltage\": 4.0, "
           \o "\"batteryCurrent\": 0.0, \"batteryTemperature\": -5, "
           \o "\"batteryStatus\": \"NORMAL\", \"powerInput\": \"NOT_PRESENT\", "
           \o "\"powerInput5vIo\": \"NOT_PRESENT\", \"ioVoltage\": "
           \o "0.065, \"ioCurrent\": -2.505}"
      [] pijuice = LoadedDevice ->
           "{\"batteryCharge\": 5, \"batteryVoltage\": 3.201, "
           \o "\"batteryCurrent\": 1.0, \"batteryTemperature\": 41, "
           \o "\"batteryStatus\": \"NORMAL\", \"powerInput\": \"NOT_PRESENT\", "
           \o "\"powerInput5vIo\": \"PRESENT\", \"ioVoltage\": 4.99, "
           \o "\"ioCurrent\": -0.01}"

C14_StatusDocument ==
    /\ \A k \in Invocations :
          inv[k] = "done" =>
              Cardinality({i \in 1..Len(status) : status[i].n = k}) = 1
    /\ \A i \in 1..Len(status) :
          /\ status[i].keys =
                 {"batteryCharge", "batteryVoltage", "batteryCurrent",
                  "batteryTemperature", "batteryStatus", "powerInput",
                  "powerInput5vIo", "ioVoltage", "ioCurrent"}
          /\ Cardinality(status[i].keys) = 9
          /\ status[i].payload = C14_Expected

\* Two cycles have published the reference readings.
C14_Witness ==
    /\ pijuice = ReferenceDevice
    /\ inv[0] = "done" /\ inv[1] = "done"
    /\ Len(status) = 2

(***************************************************************************)
(* C15.  An exception raised inside a publish cycle does not kill the      *)
(* scheduler: however the body of invocation k ended (normal return after  *)
(* the /status publish, KeyError caught and the cycle skipped, or an       *)
(* exception of another type raised by a publish, a lookup or a division   *)
(* and not caught), the successor Timer k+1 has been created and started,  *)
(* and it waits to fire or has fired unless on_exit cancelled it.          *)
(***************************************************************************)
C15_ExceptionKeepsScheduler ==
    \A k \in Invocations :
        inv[k] \in {"done", "skipped", "raised"} =>
            /\ Started(k + 1)
            /\ (timer[k + 1] = "waiting" /\ finished[k + 1]) => signalled

\* Invocation 0 ended with an uncaught exception, invocation 1 with a caught
\* KeyError, and Timer 2 is pending.
C15_Witness ==
    /\ inv[0] = "raised"
    /\ inv[1] = "skipped"
    /\ Pending(2)

(***************************************************************************)
(* C16.  The online heartbeat is governed only by publish_online_status.   *)
(* When the option is absent or false no publish cycle publishes on the    *)
(* availability topic.  When it is true, every cycle publishes "online",   *)
(* retained with qos=1, exactly once: not before its heartbeat statement,  *)
(* and once by the time it reads the hardware, publishes /status, returns  *)
(* or skips after a failed read.                                           *)
(***************************************************************************)
\* The messages cycle k has published on the availability topic.
HeartbeatsOf(k) ==
    {i \in 1..Len(service) : service[i].src = "cycle" /\ service[i].n = k}

C16_HeartbeatGoverned ==
    /\ \A i \in 1..Len(service) :
          service[i].src = "cycle" =>
              /\ cfg.publish_online_status
              /\ service[i].payload = "online"
              /\ service[i].retain /\ service[i].qos = 1
    /\ \A k \in Invocations :
          /\ Cardinality(HeartbeatsOf(k)) <= 1
          /\ inv[k] \in {"idle", "create", "start", "heartbeat"} => HeartbeatsOf(k) = {}
          /\ (cfg.publish_online_status
                  /\ inv[k] \in {"read", "publish", "done", "skipped"})
             => Cardinality(HeartbeatsOf(k)) = 1
          /\ (cfg.publish_online_status /\ StatusOf(k) # {}) => HeartbeatsOf(k) # {}

\* With the option set, a cycle published /status and the next one skipped,
\* each after its heartbeat.
C16_Witness ==
    /\ cfg.publish_online_status
    /\ inv[0] = "done" /\ inv[1] = "skipped"
    /\ HeartbeatsOf(0) # {} /\ HeartbeatsOf(1) # {}

(***************************************************************************)
(* C17.  There is a single timer chain.  In every reachable state at most  *)
(* one Timer is pending (started, not yet fired, not cancelled).  A Timer  *)
(* is created only by line 185 of an invocation of publish_pijuice, Timer  *)
(* k+1 by invocation k, which the main program called (k = 0) or Timer k   *)
(* called when it fired: one Timer per invocation, and none by a step of   *)
(* the connect callback, so a reconnect adds no second chain.              *)
(***************************************************************************)
C17_SingleTimerChain ==
    /\ [](/\ Cardinality({k \in Timers : Pending(k)}) <= 1
          /\ \A k \in Invocations :
                /\ timer[k + 1] # "none" => inv[k] \notin {"idle", "create"}
                /\ (k > 0 /\ inv[k] # "idle") => timer[k] \in {"running", "dead"})
    /\ [][\A k \in Timers :
             (timer[k] = "none" /\ timer'[k] # "none") =>
                 /\ inv[k - 1] = "create" /\ inv'[k - 1] = "start"
                 /\ \A j \in Timers \ {k} : timer'[j] = timer[j]
                 /\ cb' = cb /\ cbDone' = cbDone /\ session' = session]_vars

\* After a reconnect and a skipped cycle, Timer 2 is the one pending Timer.
C17_Witness ==
    /\ session = 2 /\ cbDone = {1, 2}
    /\ inv[0] = "skipped"
    /\ timer[1] = "dead" /\ Pending(2)

(***************************************************************************)
(* C18.  Whenever the termination handler on_exit runs, the global         *)
(* timer_thread refers to a Timer object: when on_exit reaches             *)
(* timer_thread.cancel() (line 173), timer_thread is not None; this        *)
(* includes a signal delivered after the signal.signal calls and before    *)
(* the first publish_pijuice() call has assigned timer_thread.             *)
(***************************************************************************)
C18_TimerThreadIsTimer == hpc = "cancel" => timer_thread # 0

(***************************************************************************)
(* C19.  As claimed: an announcement is all-or-nothing per connection, a   *)
(* connection whose connect callback is no longer running has published    *)
(* either 0 or 4 autodiscovery documents, never 1 to 3.  Stated for the    *)
(* runs in which no exception has ended the main thread.                   *)
(***************************************************************************)
C19_AllOrNothing ==
    \A s \in Sessions :
        (exitStatus # "1" /\ ~(s = session /\ cb # "none"))
            => Len(DocsOf(s)) \in {0, Len(HaTopics)}

(***************************************************************************)
(* C19, amended.  Both metadata reads happen after the will registration   *)
(* and the "online" publish and before the first autodiscovery publish; a  *)
(* connection for which a metadata read fails has published "online" and   *)
(* no autodiscovery document; a connection whose callback returned has     *)
(* published 0 or 4 documents; a connection has 1 to 3 documents only      *)
(* while its callback is running, or when on_exit, run by a termination    *)
(* signal during the announcement, ended the main thread inside it.        *)
(***************************************************************************)
C19_AllOrNothingUnlessInterrupted ==
    \A s \in Sessions :
        /\ DocsOf(s) # <<>> =>
              /\ clientWill # <<>>
              /\ OnlineByConnect(s)
              /\ {"GetBatteryProfile", "GetFirmwareVersion"} \subseteq calls
        /\ s \in cbRaised => OnlineByConnect(s) /\ DocsOf(s) = <<>>
        /\ s \in cbDone => Len(DocsOf(s)) \in {0, Len(HaTopics)}
        /\ Len(DocsOf(s)) \in 1..(Len(HaTopics) - 1) =>
              /\ s = session
              /\ cb # "none" \/ (signalled /\ main = "dead")

\* The first connection announced in full; on the second a metadata lookup
\* failed after "online" and nothing was announced.
C19_Witness ==
    /\ 1 \in cbDone /\ Len(DocsOf(1)) = 4
    /\ 2 \in cbRaised /\ OnlineByConnect(2) /\ DocsOf(2) = <<>>

====
